---- MODULE Spec2Model ----
(***************************************************************************)
(* A model of the k-d tree of src/src/tree.rs: construction (from_vec,     *)
(* from_iter, build_tree) and the k-nearest-neighbour query                *)
(* (get_nearest_neighbors, nearest_neighbors) with the squared Euclidean   *)
(* metric of src/src/distance.rs.                                          *)
(*                                                                         *)
(* Coordinates are integers.  On the generated inputs and on the colors     *)
(* every distance is an integer below 2^24, which f32 represents exactly.  *)
(* The cities are given in hundredths of a degree and the rounding of f32  *)
(* is not modelled there.  NaN is not modelled.                            *)
(* Indices into the backing storage are 0-based as in the code; TLA+       *)
(* sequences are 1-based, so data[i + 1] is the code's data[i].            *)
(***************************************************************************)
EXTENDS Integers, Sequences, FiniteSets, TLC

(* ------------------------------ bounds -------------------------------- *)
\* The first coordinate of a generated point is drawn from 0..MaxCoord.
MaxCoord == 2
\* A generated input holds at most MaxCells coordinates (records x dimension).
MaxCells == 6
\* k is drawn from 0..MaxK.
MaxK == 7
\* The leaf threshold min_points is 1 (no threshold: build_tree splits down to
\* the floor of 3 records) or one of 4..MaxMinPoints.
MaxMinPoints == 5
\* Dimensions of the generated inputs.
Dims == {1, 2}
\* The further coordinates of a generated point are drawn from OffAxis.
OffAxis == {0, 1}

(* ---------------------------- data model ------------------------------ *)
\* Data::new: a payload with its point.
NewData(d, coordinates) == [data |-> d, point |-> coordinates]

\* Point::shape
Shape(p) == Len(p)

\* Point::point(i), i 0-based
Coordinate(p, i) == p[i + 1]

\* NodeOrDataPointer::Data((start, stop))
DataPointer(start, stop) == [tag |-> "Data", start |-> start, stop |-> stop]

\* NodeOrDataPointer::Node(Node {data_pointer, left, right})
NodePointer(data_pointer, left, right) ==
    [tag |-> "Node", data_pointer |-> data_pointer, left |-> left, right |-> right]

\* RawNeighbor::new
RawNeighbor(distance, data_pointer) ==
    [distance |-> distance, data_pointer |-> data_pointer]

\* RawNeighbor::as_neighbor
AsNeighbor(r, store) ==
    [distance |-> r.distance, data |-> store[r.data_pointer + 1].data,
     data_pointer |-> r.data_pointer]

(* ----------------------------- fixtures ------------------------------- *)
\* The records of examples/colors.rs.
Colors ==
    << NewData("blue", <<0, 0, 255>>), NewData("red", <<255, 0, 0>>),
       NewData("navy", <<17, 4, 89>>), NewData("purple", <<171, 3, 255>>),
       NewData("light-blue", <<61, 118, 224>>), NewData("pink", <<255, 3, 213>>),
       NewData("yellow", <<255, 234, 0>>), NewData("green", <<16, 145, 25>>),
       NewData("orange", <<255, 106, 0>>) >>

\* The query point of examples/colors.rs (light orange).
ColorsPoint == <<237, 139, 69>>

\* The records of tests::tree_build, in hundredths of a degree (rounded).
Cities ==
    << NewData("Boston", <<4236, -7106>>), NewData("Troy", <<4273, -7369>>),
       NewData("New York", <<4066, -7394>>), NewData("Miami", <<2579, -8022>>),
       NewData("London", <<5151, -13>>), NewData("Paris", <<4886, 235>>),
       NewData("Vienna", <<4821, 1637>>), NewData("Rome", <<4190, 1250>>),
       NewData("Beijing", <<3991, 11639>>), NewData("Hong Kong", <<2228, 11416>>),
       NewData("Seoul", <<3757, 12698>>), NewData("Tokyo", <<3569, 13969>>) >>

\* The query point of tests::tree_build (Arles), in hundredths of a degree.
CitiesPoint == <<4368, 463>>

(* ------------------------------ inputs -------------------------------- *)
Points(d) == { p \in [1..d -> (0..MaxCoord) \cup OffAxis] : \A i \in 2..d : p[i] \in OffAxis }

\* Every sequence of n records of dimension d, n * d <= MaxCells; n = 0 included.
GeneratedInputs ==
    UNION { UNION { { [i \in 1..n |-> NewData("r", ps[i])] : ps \in [1..n -> Points(d)] }
                    : n \in 0..(MaxCells \div d) }
            : d \in Dims }

Inputs == GeneratedInputs \cup {Colors, Cities}

\* Query points: the grid of each generated dimension, and the fixtures' points.
QueryPoints == (UNION { Points(d) : d \in Dims }) \cup {ColorsPoint, CitiesPoint}

\* The leaf thresholds; 0, 2 and 3 build the trees that 1 builds.
MinPoints == {1} \cup (4..MaxMinPoints)

(* ----------------------------- distance ------------------------------- *)
Min(a, b) == IF a <= b THEN a ELSE b

RECURSIVE SumSquares(_, _, _)
SumSquares(p1, p2, n) ==
    IF n = 0 THEN 0
    ELSE SumSquares(p1, p2, n - 1) + (p1[n] - p2[n]) * (p1[n] - p2[n])

\* SquaredEuclideanDistance::distance: zip stops at the shorter point.
SquaredEuclideanDistance(p1, p2) == SumSquares(p1, p2, Min(Len(p1), Len(p2)))

(* --------------------------- construction ----------------------------- *)
\* The comparator of data.sort_by in build_tree: a before b on axis.
AxisLess(a, b, axis) == Coordinate(a.point, axis) < Coordinate(b.point, axis)

\* One insertion of the stable sort: rec goes after every element not greater.
RECURSIVE InsertByAxis(_, _, _)
InsertByAxis(sorted, rec, axis) ==
    IF sorted = <<>> THEN <<rec>>
    ELSE IF AxisLess(rec, sorted[Len(sorted)], axis)
         THEN Append(InsertByAxis(SubSeq(sorted, 1, Len(sorted) - 1), rec, axis),
                     sorted[Len(sorted)])
         ELSE Append(sorted, rec)

\* data.sort_by(..) of build_tree: a stable sort on the axis coordinate.
RECURSIVE SortByAxis(_, _)
SortByAxis(s, axis) ==
    IF s = <<>> THEN <<>>
    ELSE InsertByAxis(SortByAxis(SubSeq(s, 1, Len(s) - 1), axis), s[Len(s)], axis)

\* The stop condition of build_tree: fewer than min_points or fewer than 3 records.
IsLeafSize(len, threshold) == (len < threshold) \/ (len < 3)

\* RightLocation with the pivot's slot counted into the right child.
RightLocationAtPivot(data_location, median) == data_location + median

\* The index of the first record of the right child.
RightLocation(data_location, median) == data_location + median + 1

\* build_tree: the node built over the slice, and the slice as it was reordered.
RECURSIVE build_tree(_, _, _, _, _)
build_tree(slice, data_location, depth, point_len, threshold) ==
    IF IsLeafSize(Len(slice), threshold)
    THEN [node |-> DataPointer(data_location, data_location + Len(slice)),
          data |-> slice]
    ELSE LET axis   == depth % point_len
             sorted == SortByAxis(slice, axis)
             median == Len(sorted) \div 2
             left   == build_tree(SubSeq(sorted, 1, median), data_location,
                                  depth + 1, point_len, threshold)
             right  == build_tree(SubSeq(sorted, median + 2, Len(sorted)),
                                  RightLocation(data_location, median),
                                  depth + 1, point_len, threshold)
         IN  [node |-> NodePointer(median + data_location, left.node, right.node),
              data |-> left.data \o <<sorted[median + 1]>> \o right.data]

(* --------------------- std BinaryHeap<RawNeighbor> --------------------- *)
\* The heap is its backing array; Ord for RawNeighbor compares the distance
\* alone, so the greatest distance is at index 0.

\* BinaryHeap::sift_up(start, pos) with the hole's element elt taken out.
RECURSIVE SiftUp(_, _, _, _)
SiftUp(h, start, pos, elt) ==
    IF pos > start /\ elt.distance > h[((pos - 1) \div 2) + 1].distance
    THEN SiftUp([h EXCEPT ![pos + 1] = h[((pos - 1) \div 2) + 1]],
                start, (pos - 1) \div 2, elt)
    ELSE [h EXCEPT ![pos + 1] = elt]

\* The descent of BinaryHeap::sift_down_to_bottom: the hole moves to the bottom
\* along the greater children; returns the array and the hole's final position.
RECURSIVE SiftHoleDown(_, _)
SiftHoleDown(h, pos) ==
    LET end   == Len(h)
        child == 2 * pos + 1
    IN  IF end >= 2 /\ child <= end - 2
        THEN LET c == IF h[child + 1].distance <= h[child + 2].distance
                      THEN child + 1 ELSE child
             IN  SiftHoleDown([h EXCEPT ![pos + 1] = h[c + 1]], c)
        ELSE IF child = end - 1
             THEN [h |-> [h EXCEPT ![pos + 1] = h[child + 1]], pos |-> child]
             ELSE [h |-> h, pos |-> pos]

\* BinaryHeap::peek
HeapPeek(h) == h[1]

\* BinaryHeap::push
HeapPush(h, x) == SiftUp(Append(h, x), 0, Len(h), x)

\* BinaryHeap::pop: the last element replaces the root and is sifted down to
\* the bottom, then up.
HeapPop(h) ==
    IF Len(h) <= 1 THEN <<>>
    ELSE LET item == h[Len(h)]
             rest == [SubSeq(h, 1, Len(h) - 1) EXCEPT ![1] = item]
             down == SiftHoleDown(rest, 0)
         IN  SiftUp(down.h, 0, down.pos, item)

\* BinaryHeap::extend: every element is pushed in turn.
RECURSIVE HeapExtend(_, _)
HeapExtend(h, xs) ==
    IF xs = <<>> THEN h ELSE HeapExtend(HeapPush(h, Head(xs)), Tail(xs))

(* ------------------------------- query -------------------------------- *)
\* The insertion of an internal node's pivot (nearest_neighbors, Node arm):
\* pushed when the heap is empty; otherwise only when closer than the worst
\* kept neighbour, the worst being popped first when the heap holds k or more.
InsertPivot(h, kk, distance, data_pointer) ==
    IF h = <<>>
    THEN HeapPush(h, RawNeighbor(distance, data_pointer))
    ELSE IF distance < HeapPeek(h).distance
         THEN HeapPush(IF Len(h) >= kk THEN HeapPop(h) ELSE h,
                       RawNeighbor(distance, data_pointer))
         ELSE h

\* CloseIsLeft with the sides exchanged.
CloseIsLeftExchanged(diff) == diff > 0

\* The side searched first: the left child when diff <= 0.
CloseIsLeft(diff) == diff <= 0

\* The test that opens the far child after the near child returned.
DescendAway(h, diff) == h # <<>> /\ diff * diff < HeapPeek(h).distance

\* The candidates of a leaf: one RawNeighbor per index of [start, stop).
RECURSIVE LeafCandidates(_, _, _, _)
LeafCandidates(store, p, start, stop) ==
    IF start >= stop THEN <<>>
    ELSE <<RawNeighbor(SquaredEuclideanDistance(p, store[start + 1].point), start)>>
         \o LeafCandidates(store, p, start + 1, stop)

\* One insertion of the sort of the candidates in reverse (descending) order.
RECURSIVE InsertReverse(_, _)
InsertReverse(sorted, c) ==
    IF sorted = <<>> THEN <<c>>
    ELSE IF c.distance > sorted[Len(sorted)].distance
         THEN Append(InsertReverse(SubSeq(sorted, 1, Len(sorted) - 1), c),
                     sorted[Len(sorted)])
         ELSE Append(sorted, c)

\* neighbor_candidates.sort_unstable_by(|a, b| b.cmp(a)): greatest distance first.
RECURSIVE SortReverse(_)
SortReverse(cs) ==
    IF cs = <<>> THEN <<>>
    ELSE InsertReverse(SortReverse(SubSeq(cs, 1, Len(cs) - 1)), cs[Len(cs)])

\* CandidateIsCloser with the comparison turned round.
CandidateIsFarther(worst_neighbor, best_candidate) ==
    worst_neighbor.distance < best_candidate.distance

\* worst_neighbor > &best_candidate: the candidate displaces the worst kept.
CandidateIsCloser(worst_neighbor, best_candidate) ==
    worst_neighbor.distance > best_candidate.distance

\* The loop of the leaf arm: candidates are popped from the end (best first).
RECURSIVE MergeLoop(_, _, _)
MergeLoop(h, kk, cs) ==
    IF cs = <<>> THEN h
    ELSE LET best_candidate == cs[Len(cs)]
             rest           == SubSeq(cs, 1, Len(cs) - 1)
         IN  IF Len(h) < kk
             THEN MergeLoop(HeapPush(h, best_candidate), kk, rest)
             ELSE IF h # <<>>
                  THEN IF CandidateIsCloser(HeapPeek(h), best_candidate)
                       THEN MergeLoop(HeapPush(HeapPop(h), best_candidate), kk, rest)
                       ELSE h
                  ELSE MergeLoop(h, kk, rest)

\* k.saturating_sub(heap.len())
SaturatingSub(a, b) == IF a >= b THEN a - b ELSE 0

\* The leaf arm of nearest_neighbors.
LeafMerge(h, kk, neighbor_candidates) ==
    IF SaturatingSub(kk, Len(h)) >= Len(neighbor_candidates)
    THEN HeapExtend(h, neighbor_candidates)
    ELSE MergeLoop(h, kk, SortReverse(neighbor_candidates))

\* heap.into_iter().map(|r| r.as_neighbor(&self.data)).collect(): the heap's
\* array in its own order.
IntoNeighbors(h, store) == [i \in 1..Len(h) |-> AsNeighbor(h[i], store)]

VARIABLES
    pc,              \* "new", "built", "query", "done" or "panic"
    from_vec_result, \* "none", "Ok" or "panic"
    min_points,      \* from_vec's leaf threshold, while the tree is not queried yet
    data,            \* KDTree.data, the backing storage
    root_node,       \* KDTree.root_node
    dimension,       \* KDTree.dimension
    point,           \* the query point
    k,               \* the query's k
    heap,            \* the BinaryHeap<RawNeighbor> of the query, as its array
    stack,           \* the pending calls of nearest_neighbors, innermost last
    result           \* the Vec<Neighbor> returned

vars == <<pc, from_vec_result, min_points, data, root_node, dimension, point, k, heap, stack, result>>

NoNode == [tag |-> "None"]

\* A pending call nearest_neighbors(.., node, depth, ..); stage "away" is the
\* far child waiting for the near child to return, with the diff of its parent.
Frame(stage, node, depth, diff) ==
    [stage |-> stage, node |-> node, depth |-> depth, diff |-> diff]

Top == stack[Len(stack)]

Init ==
    /\ pc = "new"
    /\ from_vec_result = "none"
    /\ min_points = 0
    /\ data = <<>>
    /\ root_node = NoNode
    /\ dimension = 0
    /\ point = <<>>
    /\ k = 0
    /\ heap = <<>>
    /\ stack = <<>>
    /\ result = <<>>

\* KDTree::from_vec: data[0] panics on an empty vector; no path returns Err.
FromVecCall(input, threshold) ==
    /\ pc = "new"
    /\ min_points' = threshold
    /\ IF input = <<>>
       THEN /\ pc' = "panic"
            /\ from_vec_result' = "panic"
            /\ UNCHANGED <<data, root_node, dimension>>
       ELSE LET point_len == Shape(input[1].point)
                built     == build_tree(input, 0, 0, point_len, threshold)
            IN  /\ pc' = "built"
                /\ from_vec_result' = "Ok"
                /\ data' = built.data
                /\ root_node' = built.node
                /\ dimension' = point_len
    /\ UNCHANGED <<point, k, heap, stack, result>>

from_vec ==
    /\ pc = "new"
    /\ \E input \in Inputs, threshold \in MinPoints :
           FromVecCall(input, threshold)

\* KDTree::from_iter: collects the iterator and calls from_vec.
from_iter ==
    /\ pc = "new"
    /\ \E input \in Inputs, threshold \in MinPoints :
           FromVecCall(input, threshold)

\* get_nearest_neighbors, entry: a new heap, and the call on the root at depth 0.
QueryCall(p, kk) ==
    /\ pc = "built"
    /\ pc' = "query"
    /\ point' = p
    /\ k' = kk
    /\ heap' = <<>>
    /\ stack' = <<Frame("enter", root_node, 0, 0)>>
    /\ min_points' = 0
    /\ UNCHANGED <<from_vec_result, data, root_node, dimension, result>>

\* A query with a point of the tree's dimension.
get_nearest_neighbors ==
    /\ pc = "built"
    /\ \E p \in QueryPoints, kk \in 0..MaxK :
           /\ Len(p) = dimension
           /\ QueryCall(p, kk)

\* A query with a point of any length: the code checks none.
get_nearest_neighbors_any ==
    /\ pc = "built"
    /\ \E p \in QueryPoints, kk \in 0..MaxK : QueryCall(p, kk)

\* nearest_neighbors on an internal node, up to the call on the near child.
\* point.coordinates[axis] panics when the point has no such coordinate.
VisitNode ==
    /\ pc = "query" /\ stack # <<>>
    /\ Top.stage = "enter" /\ Top.node.tag = "Node"
    /\ LET n        == Top.node
           pivot    == data[n.data_pointer + 1].point
           distance == SquaredEuclideanDistance(point, pivot)
           axis     == Top.depth % dimension
       IN  /\ heap' = InsertPivot(heap, k, distance, n.data_pointer)
           /\ IF axis >= Len(point)
              THEN /\ pc' = "panic"
                   /\ UNCHANGED stack
              ELSE LET diff  == Coordinate(point, axis) - Coordinate(pivot, axis)
                       close == IF CloseIsLeft(diff) THEN n.left ELSE n.right
                       away  == IF CloseIsLeft(diff) THEN n.right ELSE n.left
                   IN  /\ pc' = "query"
                       /\ stack' = SubSeq(stack, 1, Len(stack) - 1)
                                   \o << Frame("away", away, Top.depth + 1, diff),
                                         Frame("enter", close, Top.depth + 1, 0) >>
    /\ UNCHANGED <<from_vec_result, min_points, data, root_node, dimension, point, k, result>>

\* nearest_neighbors after the near child returned: the far child is searched
\* only when the heap is not empty and diff^2 is below the worst kept distance.
VisitAway ==
    /\ pc = "query" /\ stack # <<>>
    /\ Top.stage = "away"
    /\ stack' = IF DescendAway(heap, Top.diff)
                THEN [stack EXCEPT ![Len(stack)] = Frame("enter", Top.node, Top.depth, 0)]
                ELSE SubSeq(stack, 1, Len(stack) - 1)
    /\ UNCHANGED <<pc, from_vec_result, min_points, data, root_node, dimension, point, k, heap, result>>

\* nearest_neighbors on a leaf.
VisitLeaf ==
    /\ pc = "query" /\ stack # <<>>
    /\ Top.stage = "enter" /\ Top.node.tag = "Data"
    /\ heap' = LeafMerge(heap, k, LeafCandidates(data, point, Top.node.start, Top.node.stop))
    /\ stack' = SubSeq(stack, 1, Len(stack) - 1)
    /\ UNCHANGED <<pc, from_vec_result, min_points, data, root_node, dimension, point, k, result>>

\* get_nearest_neighbors, exit: the heap is drained in its array order.
Collect ==
    /\ pc = "query" /\ stack = <<>>
    /\ pc' = "done"
    /\ result' = IntoNeighbors(heap, data)
    /\ UNCHANGED <<from_vec_result, min_points, data, root_node, dimension, point, k, heap, stack>>

Next ==
    \/ from_vec
    \/ from_iter
    \/ get_nearest_neighbors
    \/ VisitNode
    \/ VisitAway
    \/ VisitLeaf
    \/ Collect

Spec == Init /\ [][Next]_vars

\* The same program, queried with points of any length.
NextAny ==
    \/ from_vec
    \/ from_iter
    \/ get_nearest_neighbors_any
    \/ VisitNode
    \/ VisitAway
    \/ VisitLeaf
    \/ Collect

SpecAny == Init /\ [][NextAny]_vars
(* ------------------------- reference results -------------------------- *)
RECURSIVE InsertInt(_, _)
InsertInt(sorted, x) ==
    IF sorted = <<>> THEN <<x>>
    ELSE IF x < sorted[Len(sorted)]
         THEN Append(InsertInt(SubSeq(sorted, 1, Len(sorted) - 1), x), sorted[Len(sorted)])
         ELSE Append(sorted, x)

\* A sequence of integers in ascending order.
RECURSIVE SortInts(_)
SortInts(xs) ==
    IF xs = <<>> THEN <<>>
    ELSE InsertInt(SortInts(SubSeq(xs, 1, Len(xs) - 1)), xs[Len(xs)])

\* The distance of every record to the query point, by linear scan.
AllDistances == [i \in 1..Len(data) |-> SquaredEuclideanDistance(point, data[i].point)]

\* Brute force: the first min(k, n) distances of the ascending scan.
BruteForce == SubSeq(SortInts(AllDistances), 1, Min(k, Len(data)))

ResultDistances == [i \in 1..Len(result) |-> result[i].distance]

\* The returned distances are, as a multiset, those of the brute force.
MatchesBruteForce == SortInts(ResultDistances) = BruteForce

\* The records of the backing storage are those of the fixture, in any order.
Holds(records) ==
    /\ Len(data) = Len(records)
    /\ {data[i] : i \in 1..Len(data)} = {records[i] : i \in 1..Len(records)}

\* The indices a tree refers to, pivots and leaf ranges, with repetitions.
RECURSIVE TreeIndices(_)
TreeIndices(node) ==
    IF node.tag = "Data"
    THEN [i \in 1..(node.stop - node.start) |-> node.start + i - 1]
    ELSE TreeIndices(node.left) \o <<node.data_pointer>> \o TreeIndices(node.right)

RECURSIVE NoEmptyLeaf(_)
NoEmptyLeaf(node) ==
    IF node.tag = "Data" THEN node.start < node.stop
    ELSE NoEmptyLeaf(node.left) /\ NoEmptyLeaf(node.right)

Returned == pc = "done"

(* ------------------------------ claims -------------------------------- *)
\* C1: every returned result has, as a multiset, the distances of the first k
\* records of the brute-force scan sorted by distance to the query point.
C1_BruteForceEquivalence == Returned => MatchesBruteForce

\* C2: every returned result is sorted ascending by distance.
C2_SortedAscending ==
    Returned => \A i \in 1..(Len(result) - 1) : result[i].distance <= result[i + 1].distance

\* C3: every returned result holds exactly min(k, n) neighbors, and every
\* record exactly once when k is larger than n.
C3_ResultLength ==
    Returned =>
        /\ Len(result) = Min(k, Len(data))
        /\ k > Len(data) =>
               \A j \in 0..(Len(data) - 1) :
                   Cardinality({i \in 1..Len(result) : result[i].data_pointer = j}) = 1

\* C4: a query with k = 0 returns an empty sequence, whatever the root is.
C4_ZeroKEmpty == (Returned /\ k = 0) => result = <<>>

\* C5: the pivots and leaf ranges of a built tree hold every index of [0, n)
\* exactly once, and no leaf range is empty.
C5_Cover ==
    from_vec_result = "Ok" =>
        LET idx == TreeIndices(root_node)
        IN  /\ Len(idx) = Len(data)
            /\ {idx[i] : i \in 1..Len(idx)} = 0..(Len(data) - 1)
            /\ NoEmptyLeaf(root_node)

\* C5 witness: a built tree with an internal node below the root and a leaf of
\* two records.
C5_Witness ==
    /\ pc = "built"
    /\ Len(data) = 6
    /\ root_node.tag = "Node"
    /\ root_node.left.tag = "Node"
    /\ root_node.right = DataPointer(4, 6)

\* C6: a query with k = 1 returns exactly one neighbor, at the minimum distance
\* over all records; on the cities it is Paris for the point of the test.
C6_NearestIsMinimum ==
    (Returned /\ k = 1) =>
        /\ Len(result) = 1
        /\ \A i \in 1..Len(data) : result[1].distance <= AllDistances[i]
        /\ \E i \in 1..Len(data) : result[1].distance = AllDistances[i]
        /\ (Holds(Cities) /\ point = CitiesPoint) => result[1].data = "Paris"

\* C6 witness: the cities split down to single records (leaf threshold 1),
\* queried at the point of the test with k = 1.
C6_Witness ==
    /\ Returned /\ k = 1
    /\ Holds(Cities) /\ point = CitiesPoint
    /\ root_node.tag = "Node"
    /\ root_node.left.tag = "Node"
    /\ root_node.left.left.tag = "Node"
    /\ result[1].data = "Paris"

\* C7: an input of fewer than 3 records, or fewer than the leaf threshold, is
\* built (Ok) as one leaf over [0, n), and a query on a leaf root returns the
\* min(k, n) nearest records of the brute-force scan.
C7_LeafRoot ==
    /\ (pc = "built" /\ (Len(data) < 3 \/ Len(data) < min_points)) =>
           /\ from_vec_result = "Ok"
           /\ root_node = DataPointer(0, Len(data))
    /\ (Returned /\ root_node.tag = "Data") =>
           /\ root_node = DataPointer(0, Len(data))
           /\ Len(result) = Min(k, Len(data))
           /\ MatchesBruteForce

\* C7 witness: a leaf root of three records at different distances, k = 2.
C7_Witness ==
    /\ Returned /\ k = 2
    /\ root_node = DataPointer(0, 3)
    /\ Len(result) = 2
    /\ Cardinality({AllDistances[i] : i \in 1..3}) >= 2

\* C8: from_vec on zero records returns Err to the caller.
C8_EmptyInputIsErr == (pc # "new" /\ data = <<>>) => from_vec_result = "Err"

\* C9: a query whose point has not the tree's number of coordinates neither
\* returns a neighbor list nor aborts: every query that returned or aborted
\* had a point of the tree's dimension.
C9_DimensionMismatchFails ==
    (from_vec_result = "Ok" /\ pc \in {"done", "panic"}) => Len(point) = dimension

\* The visit of an internal node is the next step of the query.
VisitingNode ==
    /\ pc = "query" /\ stack # <<>>
    /\ Top.stage = "enter" /\ Top.node.tag = "Node"

PivotDistance == SquaredEuclideanDistance(point, data[Top.node.data_pointer + 1].point)

Holding(h, r) == \E i \in 1..Len(h) : h[i] = r

\* C10: a visit of an internal node with fewer than k candidates kept inserts
\* the pivot whatever its distance; with k kept, it inserts the pivot only when
\* strictly closer than the worst, which is evicted first; the heap never holds
\* more than k candidates.
C10_PivotInsertion ==
    [][VisitingNode =>
        LET pivot == RawNeighbor(PivotDistance, Top.node.data_pointer)
        IN  /\ Len(heap) < k => Holding(heap', pivot)
            /\ Len(heap) >= k =>
                   IF heap # <<>> /\ PivotDistance < HeapPeek(heap).distance
                   THEN Holding(heap', pivot) /\ Len(heap') = Len(heap)
                   ELSE heap' = heap
            /\ Len(heap') <= k]_vars
====
